---- MODULE Spec2Model ----
(***************************************************************************)
(* KuzzleRoom: one real-time subscription ("room") of the Kuzzle           *)
(* JavaScript SDK, with its pending-action queue, its subscribe /          *)
(* unsubscribe / count protocol and the dispatch of inbound notifications. *)
(*                                                                         *)
(* JavaScript is single threaded: a public call or a response callback     *)
(* runs to completion before anything else runs.  Public calls, count      *)
(* responses and notifications are one action each.  The callback of a     *)
(* successful subscribe response contains the loop of dequeue(), which     *)
(* need not terminate, so it is modelled by its position pc: it stores the *)
(* response, then replays one queued entry per step, then registers the    *)
(* notification handler.  While pc is not "idle" no other action is        *)
(* enabled, so the callback still runs to completion.                      *)
(*                                                                         *)
(* JavaScript values: null is Null; an object is a record; a number that   *)
(* travels in a payload is JsNumber(n), so that a number and an object can *)
(* be told apart; the missing argument of cb(err) is Undefined.            *)
(***************************************************************************)
EXTENDS Integers, Sequences, FiniteSets, TLC

VARIABLES
  filters, roomId, subscriptionId, subscriptionTimestamp, subscribing, queue,
  listeningToConnections, listeningToDisconnections,
  eventListeners,   \* kuzzle.eventListeners: global event name -> listeners
  socket,           \* kuzzle.socket: channel key -> handlers registered by on()
  subReqs,          \* subscribe ('on') requests without a response yet
  countReqs,        \* count requests without a response yet
  offReqs,          \* unsubscribe ('off') requests without a response yet
  pc,               \* position inside the subscribe response callback
  handlerCb,        \* the cb captured by the running subscribe response callback
  uncaught,         \* number of exceptions thrown out of a callback
  log,              \* history: every call of a user callback or a global listener
  notifs,           \* history: every inbound notification
  hist,             \* history: public calls and subscribe responses, in order
  ev,               \* history: the last public call, response or notification
  drained,          \* history: the queue when the last subscribe response was stored
  replayed          \* history: queued entries really executed by the running drain

vars == <<filters, roomId, subscriptionId, subscriptionTimestamp, subscribing,
          queue, listeningToConnections, listeningToDisconnections,
          eventListeners, socket, subReqs, countReqs, offReqs, pc, handlerCb,
          uncaught, log, notifs, hist, ev, drained, replayed>>

-----------------------------------------------------------------------------
(* Bounds and value domains *)

\* the length of a non-empty global listener list
MaxListeners == 2
\* Spec: the number of public calls and notifications of a behaviour
MaxSteps == 3
\* SpecQueue: the number of public calls of a behaviour
MaxQueueCalls == 3

Null == 0

\* the (filters, cb) pairs a caller passes to renew: pair i is filter i with
\* callback i, so that different filters come with different callbacks
RenewArgs == {[filters |-> i, cb |-> i] : i \in {1, 2}}
\* the callbacks a caller passes to count
CountCbs == {1}
\* the room ids the backend assigns
RoomIds == {1, 2}
\* the values Date.now() returns
Times == {1}
\* the errors of a response or of a notification
Errors == {1}
Channels == RoomIds \cup {Null}

Undefined == [undefined |-> TRUE]
JsNumber(n) == [number |-> n]

\* what the query gateway hands to the callback of a successful request
\* (room r comes with the room name 10 + r)
SubscribeResponses == {[roomId |-> r, roomName |-> 10 + r] : r \in RoomIds}
CountResponses == {[count |-> JsNumber(3)]}

\* the lists the owning client may hold: no listener, or listeners 1..MaxListeners
ListenerLists == {<<>>, [i \in 1..MaxListeners |-> i]}

\* inbound messages: {error} or {result: {action}}
NotificationActions == {"on", "off", "create"}

\* the callable properties of KuzzleRoom.prototype
Methods == {"count", "renew", "unsubscribe", "dequeue"}

-----------------------------------------------------------------------------
(* The instance and its collaborators as one record, so that a method is  *)
(* an operator from the state before the call to the state after it.      *)

Cur ==
  [filters |-> filters, roomId |-> roomId, subscriptionId |-> subscriptionId,
   subscriptionTimestamp |-> subscriptionTimestamp, subscribing |-> subscribing,
   queue |-> queue, socket |-> socket, subReqs |-> subReqs,
   countReqs |-> countReqs, offReqs |-> offReqs, log |-> log]

Commit(s) ==
  /\ filters' = s.filters
  /\ roomId' = s.roomId
  /\ subscriptionId' = s.subscriptionId
  /\ subscriptionTimestamp' = s.subscriptionTimestamp
  /\ subscribing' = s.subscribing
  /\ queue' = s.queue
  /\ socket' = s.socket
  /\ subReqs' = s.subReqs
  /\ countReqs' = s.countReqs
  /\ offReqs' = s.offReqs
  /\ log' = s.log

CbCall(c, e, r, n) ==
  [fn |-> "callback", id |-> c, err |-> e, sid |-> Null, res |-> r, nid |-> n]

ListenerCall(l, sid, r, n) ==
  [fn |-> "listener", id |-> l, err |-> Null, sid |-> sid, res |-> r, nid |-> n]

RemoveAt(seq, i) == SubSeq(seq, 1, i - 1) \o SubSeq(seq, i + 1, Len(seq))

\* the callback a caller passes to count(cb)
UserCb(c) == [kind |-> "user", cb |-> c]

\* the function (countError, countResult) created by the notification handler
NotifCb(c, listening, globalEvent, result) ==
  [kind |-> "notif", cb |-> c, listening |-> listening,
   globalEvent |-> globalEvent, result |-> result]

-----------------------------------------------------------------------------
(* KuzzleRoom.prototype.count *)
count(s, cb) ==
  IF s.subscribing
    THEN [s EXCEPT !.queue = Append(@, [action |-> "count", args |-> <<cb>>])]
    ELSE [s EXCEPT !.countReqs = Append(@, [roomId |-> s.roomId, cb |-> cb])]

\* unsubscribe that clears the identity but leaves the handler on the socket
unsubscribeKeepsHandler(s) ==
  IF s.subscribing
    THEN [s EXCEPT !.queue = Append(@, [action |-> "unsubscribed", args |-> <<>>])]
    ELSE IF s.roomId /= Null
      THEN [s EXCEPT !.offReqs = Append(@, [requestId |-> s.subscriptionId]),
                     !.roomId = Null,
                     !.subscriptionId = Null,
                     !.subscriptionTimestamp = Null]
      ELSE s

(* KuzzleRoom.prototype.unsubscribe *)
unsubscribe(s) ==
  IF s.subscribing
    THEN [s EXCEPT !.queue = Append(@, [action |-> "unsubscribed", args |-> <<>>])]
    ELSE IF s.roomId /= Null
      THEN [s EXCEPT !.offReqs = Append(@, [requestId |-> s.subscriptionId]),
                     !.socket[s.roomId] = <<>>,
                     !.roomId = Null,
                     !.subscriptionId = Null,
                     !.subscriptionTimestamp = Null]
      ELSE s

\* renew without the test of subscribing: it never queues
renewUnguarded(s, f, cb) ==
  LET u == unsubscribe([s EXCEPT !.filters = f])
  IN  [u EXCEPT !.subscribing = TRUE,
                !.subReqs = Append(@, [body |-> f, cb |-> cb])]

(* KuzzleRoom.prototype.renew, up to the sending of the subscribe request *)
renew(s, f, cb) ==
  IF s.subscribing
    THEN [s EXCEPT !.queue = Append(@, [action |-> "renew", args |-> <<f, cb>>])]
    ELSE LET u == unsubscribe([s EXCEPT !.filters = f])
         IN  [u EXCEPT !.subscribing = TRUE,
                       !.subReqs = Append(@, [body |-> f, cb |-> cb])]

\* a response callback that stores the identity but leaves subscribing set
subscribedStillSubscribing(s, response, now) ==
  [s EXCEPT !.roomId = response.roomId,
            !.subscriptionId = response.roomName,
            !.subscriptionTimestamp = now]

(* The subscribe response callback of renew, success branch, from the       *)
(* storing of the response to the call of self.dequeue()                   *)
subscribed(s, response, now) ==
  [s EXCEPT !.roomId = response.roomId,
            !.subscriptionId = response.roomName,
            !.subscriptionTimestamp = now,
            !.subscribing = FALSE]

\* data.result.count = countResult
Augment(result, countResult) ==
  [action |-> result.action, nid |-> result.nid, count |-> countResult]

\* a count callback that reports a count error whatever the gate flag is
countCallbackIgnoresGate(s, cb, err, res) ==
  IF cb.kind = "user"
    THEN IF err /= Null
      THEN [s EXCEPT !.log = Append(@, CbCall(cb.cb, err, Undefined, Null))]
      ELSE [s EXCEPT !.log = Append(@, CbCall(cb.cb, Null, res, Null))]
    ELSE IF err /= Null
      THEN [s EXCEPT !.log = Append(@, CbCall(cb.cb, err, Undefined, cb.result.nid))]
      ELSE LET result == Augment(cb.result, res)
               listeners == eventListeners[cb.globalEvent]
           IN  [s EXCEPT !.log =
                  @ \o (IF cb.listening
                          THEN <<CbCall(cb.cb, Null, result, result.nid)>>
                          ELSE <<>>)
                    \o [i \in 1..Len(listeners) |->
                          ListenerCall(listeners[i], s.subscriptionId, result, result.nid)]]

\* a count callback without the return of the error branch: cb(err), then
\* cb(null, res)
countCallbackFallsThrough(s, cb, err, res) ==
  IF cb.kind = "user"
    THEN IF err /= Null
      THEN [s EXCEPT !.log = @ \o <<CbCall(cb.cb, err, Undefined, Null),
                                    CbCall(cb.cb, Null, res, Null)>>]
      ELSE [s EXCEPT !.log = Append(@, CbCall(cb.cb, Null, res, Null))]
    ELSE IF err /= Null
      THEN IF cb.listening
        THEN [s EXCEPT !.log = Append(@, CbCall(cb.cb, err, Undefined, cb.result.nid))]
        ELSE s
      ELSE LET result == Augment(cb.result, res)
               listeners == eventListeners[cb.globalEvent]
           IN  [s EXCEPT !.log =
                  @ \o (IF cb.listening
                          THEN <<CbCall(cb.cb, Null, result, result.nid)>>
                          ELSE <<>>)
                    \o [i \in 1..Len(listeners) |->
                          ListenerCall(listeners[i], s.subscriptionId, result, result.nid)]]

(* The callback of a count query: the function (err, res) of count wrapped  *)
(* around cb, where cb is the caller's callback or the function             *)
(* (countError, countResult) of the notification handler.                   *)
countCallback(s, cb, err, res) ==
  IF cb.kind = "user"
    THEN IF err /= Null
      THEN [s EXCEPT !.log = Append(@, CbCall(cb.cb, err, Undefined, Null))]
      ELSE [s EXCEPT !.log = Append(@, CbCall(cb.cb, Null, res, Null))]
    ELSE IF err /= Null
      THEN IF cb.listening
        THEN [s EXCEPT !.log = Append(@, CbCall(cb.cb, err, Undefined, cb.result.nid))]
        ELSE s
      ELSE LET result == Augment(cb.result, res)
               listeners == eventListeners[cb.globalEvent]
           IN  [s EXCEPT !.log =
                  @ \o (IF cb.listening
                          THEN <<CbCall(cb.cb, Null, result, result.nid)>>
                          ELSE <<>>)
                    \o [i \in 1..Len(listeners) |->
                          ListenerCall(listeners[i], s.subscriptionId, result, result.nid)]]

\* a handler that sends the count query for every lifecycle notification
handlerAlwaysCounts(s, cb, data) ==
  IF data.error /= Null
    THEN [s EXCEPT !.log = Append(@, CbCall(cb, data.error, Undefined, data.nid))]
    ELSE IF data.result.action = "on" \/ data.result.action = "off"
      THEN LET globalEvent == IF data.result.action = "on"
                                THEN "subscribed" ELSE "unsubscribed"
               listening == IF data.result.action = "on"
                              THEN listeningToConnections
                              ELSE listeningToDisconnections
           IN  count(s, NotifCb(cb, listening, globalEvent, data.result))
      ELSE [s EXCEPT !.log = Append(@, CbCall(cb, Null, data.result, data.nid))]

\* a handler that forwards a transport-carried error and then unsubscribes
handlerErrorTearsDown(s, cb, data) ==
  IF data.error /= Null
    THEN unsubscribe([s EXCEPT !.log = Append(@, CbCall(cb, data.error, Undefined, data.nid))])
    ELSE IF data.result.action = "on" \/ data.result.action = "off"
      THEN LET globalEvent == IF data.result.action = "on"
                                THEN "subscribed" ELSE "unsubscribed"
               listening == IF data.result.action = "on"
                              THEN listeningToConnections
                              ELSE listeningToDisconnections
           IN  IF listening \/ Len(eventListeners[globalEvent]) > 0
                 THEN count(s, NotifCb(cb, listening, globalEvent, data.result))
                 ELSE s
      ELSE [s EXCEPT !.log = Append(@, CbCall(cb, Null, data.result, data.nid))]

(* The notification handler that renew registers on the socket: the        *)
(* function (data) closed over cb.                                         *)
handler(s, cb, data) ==
  IF data.error /= Null
    THEN [s EXCEPT !.log = Append(@, CbCall(cb, data.error, Undefined, data.nid))]
    ELSE IF data.result.action = "on" \/ data.result.action = "off"
      THEN LET globalEvent == IF data.result.action = "on"
                                THEN "subscribed" ELSE "unsubscribed"
               listening == IF data.result.action = "on"
                              THEN listeningToConnections
                              ELSE listeningToDisconnections
           IN  IF listening \/ Len(eventListeners[globalEvent]) > 0
                 THEN count(s, NotifCb(cb, listening, globalEvent, data.result))
                 ELSE s
      ELSE [s EXCEPT !.log = Append(@, CbCall(cb, Null, data.result, data.nid))]

\* the socket calls every handler registered under the channel key, in order
RECURSIVE emit(_, _, _)
emit(s, handlers, data) ==
  IF handlers = <<>>
    THEN s
    ELSE emit(handler(s, Head(handlers), data), Tail(handlers), data)

-----------------------------------------------------------------------------
CallOps == {"renew", "count", "unsubscribe"}

NumCalls == Cardinality({i \in DOMAIN hist : hist[i].op \in CallOps})

NumSteps == NumCalls + Len(notifs)

\* the backend has assigned room id key to this instance
Assigned(key) ==
  \E j \in DOMAIN hist : hist[j].op = "subscribeOk" /\ hist[j].response.roomId = key

Init ==
  /\ filters = Null
  /\ roomId = Null
  /\ subscriptionId = Null
  /\ subscriptionTimestamp = Null
  /\ subscribing = FALSE
  /\ queue = <<>>
  /\ listeningToConnections \in BOOLEAN
  /\ listeningToDisconnections \in BOOLEAN
  /\ eventListeners \in [subscribed : ListenerLists, unsubscribed : ListenerLists]
  /\ socket = [k \in Channels |-> <<>>]
  /\ subReqs = <<>>
  /\ countReqs = <<>>
  /\ offReqs = <<>>
  /\ pc = "idle"
  /\ handlerCb = Null
  /\ uncaught = 0
  /\ log = <<>>
  /\ notifs = <<>>
  /\ hist = <<>>
  /\ ev = [op |-> "new"]
  /\ drained = <<>>
  /\ replayed = <<>>

\* a caller calls room.renew(f, cb)
RenewCall(f, cb) ==
  /\ pc = "idle"
  /\ Commit(renew(Cur, f, cb))
  /\ hist' = Append(hist, [op |-> "renew", filters |-> f, cb |-> cb])
  /\ ev' = [op |-> "renew", filters |-> f, cb |-> cb]
  /\ UNCHANGED <<listeningToConnections, listeningToDisconnections, eventListeners,
                 pc, handlerCb, uncaught, notifs, drained, replayed>>

\* a caller calls room.count(cb)
CountCall(cb) ==
  /\ pc = "idle"
  /\ Commit(count(Cur, UserCb(cb)))
  /\ hist' = Append(hist, [op |-> "count", cb |-> cb])
  /\ ev' = [op |-> "count", cb |-> cb]
  /\ UNCHANGED <<listeningToConnections, listeningToDisconnections, eventListeners,
                 pc, handlerCb, uncaught, notifs, drained, replayed>>

\* a caller calls room.unsubscribe()
UnsubscribeCall ==
  /\ pc = "idle"
  /\ Commit(unsubscribe(Cur))
  /\ hist' = Append(hist, [op |-> "unsubscribe", roomId |-> roomId,
                                                    subscribing |-> subscribing])
  /\ ev' = [op |-> "unsubscribe", roomId |-> roomId, subscribing |-> subscribing]
  /\ UNCHANGED <<listeningToConnections, listeningToDisconnections, eventListeners,
                 pc, handlerCb, uncaught, notifs, drained, replayed>>

\* an error branch that hands the error to the callback of renew and returns
SubscribeErrorToCallback(i, error) ==
  /\ pc = "idle"
  /\ i \in DOMAIN subReqs
  /\ subReqs' = RemoveAt(subReqs, i)
  /\ log' = Append(log, CbCall(subReqs[i].cb, error, Undefined, Null))
  /\ hist' = Append(hist, [op |-> "subscribeError", error |-> error])
  /\ ev' = [op |-> "subscribeError", error |-> error]
  /\ UNCHANGED <<filters, roomId, subscriptionId, subscriptionTimestamp,
                 subscribing, queue, listeningToConnections,
                 listeningToDisconnections, eventListeners, socket, countReqs,
                 offReqs, pc, handlerCb, uncaught, notifs, drained, replayed>>

\* the subscribe response callback of renew, error branch: throw new Error(...)
SubscribeError(i, error) ==
  /\ pc = "idle"
  /\ i \in DOMAIN subReqs
  /\ subReqs' = RemoveAt(subReqs, i)
  /\ uncaught' = uncaught + 1
  /\ hist' = Append(hist, [op |-> "subscribeError", error |-> error])
  /\ ev' = [op |-> "subscribeError", error |-> error]
  /\ UNCHANGED <<filters, roomId, subscriptionId, subscriptionTimestamp,
                 subscribing, queue, listeningToConnections,
                 listeningToDisconnections, eventListeners, socket, countReqs,
                 offReqs, pc, handlerCb, log, notifs, drained, replayed>>

\* the subscribe response callback of renew, from the storing of the response
\* to the call of self.dequeue()
SubscribeOk(i, response, now) ==
  /\ pc = "idle"
  /\ i \in DOMAIN subReqs
  /\ Commit(subscribed([Cur EXCEPT !.subReqs = RemoveAt(@, i)], response, now))
  /\ pc' = "dequeue"
  /\ handlerCb' = subReqs[i].cb
  /\ drained' = queue
  /\ replayed' = <<>>
  /\ hist' = Append(hist, [op |-> "subscribeOk", response |-> response])
  /\ ev' = [op |-> "subscribeOk", response |-> response]
  /\ UNCHANGED <<listeningToConnections, listeningToDisconnections,
                 eventListeners, uncaught, notifs>>

\* one iteration of the loop of dequeue(): element = queue.shift();
\* this[element.action].apply(this, element.args).  A property that is not
\* a method is undefined and the call throws a TypeError out of the callback.
DequeueStep ==
  /\ pc = "dequeue"
  /\ Len(queue) > 0
  /\ LET element == Head(queue)
         s == [Cur EXCEPT !.queue = Tail(@)]
     IN  IF element.action \in Methods
           THEN /\ Commit(CASE element.action = "renew" ->
                                 renew(s, element.args[1], element.args[2])
                            [] element.action = "count" ->
                                 count(s, element.args[1])
                            [] element.action = "unsubscribe" ->
                                 unsubscribe(s)
                            [] OTHER -> s)
                /\ replayed' = IF s.subscribing THEN replayed
                                                ELSE Append(replayed, element)
                /\ UNCHANGED <<pc, handlerCb, uncaught>>
           ELSE /\ Commit(s)
                /\ pc' = "idle"
                /\ handlerCb' = Null
                /\ uncaught' = uncaught + 1
                /\ UNCHANGED replayed
  /\ UNCHANGED <<listeningToConnections, listeningToDisconnections, eventListeners,
                 notifs, hist, ev, drained>>

\* the end of the subscribe response callback, once dequeue() has returned:
\* self.kuzzle.socket.on(self.roomId, function (data) {...})
RegisterHandler ==
  /\ pc = "dequeue"
  /\ Len(queue) = 0
  /\ socket' = [socket EXCEPT ![roomId] = Append(@, handlerCb)]
  /\ pc' = "idle"
  /\ handlerCb' = Null
  /\ UNCHANGED <<filters, roomId, subscriptionId, subscriptionTimestamp,
                 subscribing, queue, listeningToConnections,
                 listeningToDisconnections, eventListeners, subReqs, countReqs,
                 offReqs, uncaught, log, notifs, hist, ev, drained, replayed>>

\* the response to a count query arrives: error, or result res
CountResponse(i, err, res) ==
  /\ pc = "idle"
  /\ i \in DOMAIN countReqs
  /\ Commit(countCallback([Cur EXCEPT !.countReqs = RemoveAt(@, i)],
                          countReqs[i].cb, err, res))
  /\ ev' = [op |-> "countResponse", cb |-> countReqs[i].cb, err |-> err, res |-> res]
  /\ UNCHANGED <<listeningToConnections, listeningToDisconnections, eventListeners,
                 pc, handlerCb, uncaught, notifs, hist, drained, replayed>>

\* the response to an unsubscribe request arrives: it was sent without callback
OffResponse(i) ==
  /\ pc = "idle"
  /\ i \in DOMAIN offReqs
  /\ offReqs' = RemoveAt(offReqs, i)
  /\ ev' = [op |-> "offResponse"]
  /\ UNCHANGED <<filters, roomId, subscriptionId, subscriptionTimestamp,
                 subscribing, queue, listeningToConnections,
                 listeningToDisconnections, eventListeners, socket, subReqs,
                 countReqs, pc, handlerCb, uncaught, log, notifs, hist, drained,
                 replayed>>

\* the backend delivers a message on the channel of a room id it has assigned
Notify(key, error, action) ==
  /\ pc = "idle"
  /\ NumSteps < MaxSteps
  /\ Assigned(key)
  /\ LET nid == Len(notifs) + 1
         data == [error |-> error, nid |-> nid,
                  result |-> IF error /= Null THEN Undefined
                             ELSE [action |-> action, nid |-> nid]]
     IN  /\ Commit(emit(Cur, socket[key], data))
         /\ notifs' = Append(notifs, [key |-> key, data |-> data,
                                      handlers |-> socket[key],
                                      subscriptionId |-> subscriptionId,
                                      at |-> Len(hist)])
         /\ ev' = [op |-> "notify", key |-> key, data |-> data]
  /\ UNCHANGED <<listeningToConnections, listeningToDisconnections, eventListeners,
                 pc, handlerCb, uncaught, hist, drained, replayed>>

-----------------------------------------------------------------------------
(* Spec: every construction option, empty and non-empty global listener     *)
(* lists, and up to MaxSteps public calls and notifications.  The response  *)
(* to an unsubscribe request is left out: the request is sent without       *)
(* callback, so no code runs when it arrives, and offReqs holds the         *)
(* requests sent.                                                           *)

CallRenew(f, cb) == NumSteps < MaxSteps /\ RenewCall(f, cb)
CallCount(cb) == NumSteps < MaxSteps /\ CountCall(cb)
CallUnsubscribe == NumSteps < MaxSteps /\ UnsubscribeCall

Next ==
  \/ \E a \in RenewArgs : CallRenew(a.filters, a.cb)
  \/ \E cb \in CountCbs : CallCount(cb)
  \/ CallUnsubscribe
  \/ \E i \in DOMAIN subReqs, error \in Errors : SubscribeError(i, error)
  \/ \E i \in DOMAIN subReqs, response \in SubscribeResponses, now \in Times :
       SubscribeOk(i, response, now)
  \/ DequeueStep
  \/ RegisterHandler
  \/ \E i \in DOMAIN countReqs, res \in CountResponses : CountResponse(i, Null, res)
  \/ \E i \in DOMAIN countReqs, err \in Errors : CountResponse(i, err, Undefined)
  \/ \E key \in RoomIds, error \in Errors : Notify(key, error, "none")
  \/ \E key \in RoomIds, action \in NotificationActions : Notify(key, Null, action)

Spec == Init /\ [][Next]_vars

-----------------------------------------------------------------------------
(* SpecQueue: the queueing of calls around an in-flight subscribe request:  *)
(* an instance constructed without options, no global listener, no          *)
(* notification, up to MaxQueueCalls public calls, and the responses to the *)
(* unsubscribe requests.                                                    *)

InitQueue ==
  /\ Init
  /\ ~listeningToConnections
  /\ ~listeningToDisconnections
  /\ eventListeners = [subscribed |-> <<>>, unsubscribed |-> <<>>]

QueueRenew(f, cb) == NumCalls < MaxQueueCalls /\ RenewCall(f, cb)
QueueCount(cb) == NumCalls < MaxQueueCalls /\ CountCall(cb)
QueueUnsubscribe == NumCalls < MaxQueueCalls /\ UnsubscribeCall

NextQueue ==
  \/ \E a \in RenewArgs : QueueRenew(a.filters, a.cb)
  \/ \E cb \in CountCbs : QueueCount(cb)
  \/ QueueUnsubscribe
  \/ \E i \in DOMAIN subReqs, error \in Errors : SubscribeError(i, error)
  \/ \E i \in DOMAIN subReqs, response \in SubscribeResponses, now \in Times :
       SubscribeOk(i, response, now)
  \/ DequeueStep
  \/ RegisterHandler
  \/ \E i \in DOMAIN countReqs, res \in CountResponses : CountResponse(i, Null, res)
  \/ \E i \in DOMAIN countReqs, err \in Errors : CountResponse(i, err, Undefined)
  \/ \E i \in DOMAIN offReqs : OffResponse(i)

SpecQueue == InitQueue /\ [][NextQueue]_vars

-----------------------------------------------------------------------------
(* Properties *)

\* the number of handlers registered on the socket, under any channel key
NumHandlers ==
  Cardinality(UNION {{<<k, i>> : i \in DOMAIN socket[k]} : k \in Channels})

\* the calls logged for notification n
LogOf(n) == SelectSeq(log, LAMBDA e : e.nid = n)

\* some count query of notification n is in flight or queued
CountPending(n) ==
  \/ \E i \in DOMAIN countReqs :
       countReqs[i].cb.kind = "notif" /\ countReqs[i].cb.result.nid = n
  \/ \E i \in DOMAIN queue :
       /\ queue[i].action = "count"
       /\ queue[i].args[1].kind = "notif"
       /\ queue[i].args[1].result.nid = n

\* the subscribe response callback has returned and nothing happened since
SubscribeOkDone == pc = "idle" /\ ev.op = "subscribeOk"

Identified ==
  /\ roomId /= Null
  /\ subscriptionId /= Null
  /\ subscriptionTimestamp /= Null

Cleared ==
  /\ roomId = Null
  /\ subscriptionId = Null
  /\ subscriptionTimestamp = Null

(* C1: when the callback of a successful subscribe response has returned,   *)
(* every call that was queued while the request was in flight has been      *)
(* executed, once, in the order in which the calls were made.               *)
C1_QueueFifo == SubscribeOkDone => replayed = drained

(* C2: at the moment a successful subscribe response is stored, before any  *)
(* queued call is replayed, and when the callback has returned with nothing *)
(* queued, roomId, subscriptionId and subscriptionTimestamp are non-null    *)
(* and subscribing is false.                                                *)
C2_RenewSuccess ==
  /\ (pc = "dequeue" /\ replayed = <<>> /\ queue = drained)
       => (Identified /\ ~subscribing)
  /\ (SubscribeOkDone /\ drained = <<>>)
       => (Identified /\ ~subscribing)

C2_Witness ==
  /\ SubscribeOkDone
  /\ drained = <<>>
  /\ Identified
  /\ ~subscribing
  /\ socket[roomId] /= <<>>

\* notification n arrived on a room id that unsubscribe had cleared from an
\* Active instance, with no renew called in between
AfterUnsubscribe(n) ==
  \E j \in 1..notifs[n].at :
    /\ hist[j].op = "unsubscribe"
    /\ hist[j].roomId = notifs[n].key
    /\ ~hist[j].subscribing
    /\ \A k \in (j + 1)..notifs[n].at : hist[k].op /= "renew"

(* C3: after unsubscribe on an Active instance roomId, subscriptionId and   *)
(* subscriptionTimestamp are null and no handler is registered under the    *)
(* old room id; a notification that arrives later on that room id reaches   *)
(* no handler, no callback and no count query.                              *)
C3_UnsubscribeActive ==
  /\ (pc = "idle" /\ ev.op = "unsubscribe" /\ ev.roomId /= Null /\ ~ev.subscribing)
       => (Cleared /\ socket[ev.roomId] = <<>>)
  /\ \A n \in DOMAIN notifs :
       AfterUnsubscribe(n)
         => (notifs[n].handlers = <<>> /\ LogOf(n) = <<>> /\ ~CountPending(n))

C3_Witness ==
  /\ Cleared
  /\ \E n \in DOMAIN notifs : AfterUnsubscribe(n) /\ notifs[n].data.error = Null

(* C4: the instance never has more than one handler registered on the       *)
(* socket.                                                                  *)
C4_AtMostOneHandler == NumHandlers <= 1

(* C5: renew(f1, cb1) then renew(f2, cb2), with other filters and another   *)
(* callback, before the first response, then two successful responses:      *)
(* filters is f2, subscribing is false, roomId is                           *)
(* the room id of the second response, and the only handler registered is   *)
(* the one of cb2 under that room id.                                       *)
C5_RenewTwice ==
  (/\ pc = "idle"
   /\ Len(hist) = 4
   /\ hist[1].op = "renew"
   /\ hist[2].op = "renew"
   /\ hist[1].filters /= hist[2].filters
   /\ hist[1].cb /= hist[2].cb
   /\ hist[3].op = "subscribeOk"
   /\ hist[4].op = "subscribeOk")
  => (/\ filters = hist[2].filters
      /\ ~subscribing
      /\ roomId = hist[4].response.roomId
      /\ NumHandlers = 1
      /\ socket[roomId] = <<hist[2].cb>>)

\* the gate flag and the global event of a lifecycle action
Gate(action) ==
  IF action = "on" THEN listeningToConnections ELSE listeningToDisconnections

GlobalEvent(action) == IF action = "on" THEN "subscribed" ELSE "unsubscribed"

Lifecycle(n) ==
  /\ notifs[n].data.error = Null
  /\ notifs[n].data.result.action \in {"on", "off"}

\* notification n is a lifecycle notification whose gate flag is false and
\* whose global listener list is empty
Ungated(n) ==
  /\ Lifecycle(n)
  /\ ~Gate(notifs[n].data.result.action)
  /\ eventListeners[GlobalEvent(notifs[n].data.result.action)] = <<>>

(* C6: a lifecycle notification whose gate flag is false and whose global   *)
(* listener list is empty sends no count query and calls neither the        *)
(* callback nor a listener.                                                 *)
C6_UngatedLifecycle ==
  \A n \in DOMAIN notifs : Ungated(n) => (~CountPending(n) /\ LogOf(n) = <<>>)

C6_Witness ==
  \E n \in DOMAIN notifs : Ungated(n) /\ notifs[n].handlers /= <<>>

\* the count query of a lifecycle notification has just been answered
CountAnswered(n) ==
  /\ ev.op = "countResponse"
  /\ ev.cb.kind = "notif"
  /\ ev.cb.result.nid = n

(* C7: when the count query of a lifecycle notification succeeds and the    *)
(* gate flag is true, the callback is called once, without error, with the  *)
(* fields of the notification plus count, the count the backend returned.   *)
C7_CallbackGetsCount ==
  \A n \in DOMAIN notifs :
    (CountAnswered(n) /\ ev.err = Null /\ Gate(ev.cb.result.action))
      => SelectSeq(LogOf(n), LAMBDA e : e.fn = "callback")
           = <<CbCall(ev.cb.cb, Null, Augment(ev.cb.result, ev.res.count), n)>>

(* C8: when the count query of a lifecycle notification fails, the callback *)
(* is called with the count error if and only if the gate flag is true, it  *)
(* is not called with a result and no global listener is called.            *)
C8_CountFailure ==
  \A n \in DOMAIN notifs :
    (CountAnswered(n) /\ ev.err /= Null)
      => LogOf(n) = IF Gate(ev.cb.result.action)
                      THEN <<CbCall(ev.cb.cb, ev.err, Undefined, n)>>
                      ELSE <<>>

C8_Witness ==
  \E n \in DOMAIN notifs :
    /\ CountAnswered(n)
    /\ ev.err /= Null
    /\ Gate(ev.cb.result.action)
    /\ eventListeners[ev.cb.globalEvent] /= <<>>
    /\ LogOf(n) /= <<>>

(* C9: when the count query of a lifecycle notification succeeds, the       *)
(* callback is called first, if the gate flag is true, and then every       *)
(* listener of the global list once, in list order, with the subscription   *)
(* id of the subscription that received the notification and the result     *)
(* with the count attached.                                                 *)
C9_ListenersCalled ==
  \A n \in DOMAIN notifs :
    (CountAnswered(n) /\ ev.err = Null)
      => LET result == Augment(ev.cb.result, ev.res)
             listeners == eventListeners[GlobalEvent(ev.cb.result.action)]
         IN  LogOf(n) =
               (IF Gate(ev.cb.result.action)
                  THEN <<CbCall(ev.cb.cb, Null, result, n)>>
                  ELSE <<>>)
               \o [i \in 1..Len(listeners) |->
                     ListenerCall(listeners[i], notifs[n].subscriptionId, result, n)]

(* C10: after an error response to the subscribe request of a renew,        *)
(* subscribing is false.                                                    *)
C10_NotLocked == (pc = "idle" /\ ev.op = "subscribeError") => ~subscribing

\* this step is the callback of a subscribe request that is answered with an error
SubscribeErrorStep == Len(hist') > Len(hist) /\ ev'.op = "subscribeError"

(* C11: the callback of a subscribe request that is answered with an error  *)
(* finds roomId, subscriptionId and subscriptionTimestamp null and leaves   *)
(* them null, registers no handler on the socket, so that no handler is     *)
(* registered under a room id, calls no callback, and throws.               *)
C11_NoPartialState ==
  [][SubscribeErrorStep
       => (/\ Cleared
           /\ Cleared'
           /\ socket' = socket
           /\ \A k \in RoomIds : socket'[k] = <<>>
           /\ log' = log
           /\ uncaught' = uncaught + 1)]_vars

\* an error response to the renew of an Active instance has been handled
C11_Witness ==
  /\ pc = "idle"
  /\ ev.op = "subscribeError"
  /\ \E j \in DOMAIN hist : hist[j].op = "subscribeOk" /\ drained = <<>>
  /\ Cleared
  /\ uncaught = 1

(* C12: renew, then unsubscribe while the subscribe request is in flight,   *)
(* then the successful response: when the response callback has returned,   *)
(* an 'off' request has been sent for the new subscription, roomId,         *)
(* subscriptionId and subscriptionTimestamp are null and no handler is      *)
(* registered on the socket.                                                *)
C12_QueuedUnsubscribe ==
  (/\ SubscribeOkDone
   /\ Len(hist) = 3
   /\ hist[1].op = "renew"
   /\ hist[2].op = "unsubscribe"
   /\ hist[3].op = "subscribeOk")
  => (/\ \E i \in DOMAIN offReqs : offReqs[i].requestId = hist[3].response.roomName
      /\ Cleared
      /\ NumHandlers = 0)

\* this step delivers a notification with an error payload to a handler of
\* the instance
ErrorNotificationStep ==
  /\ Len(notifs') > Len(notifs)
  /\ notifs'[Len(notifs')].data.error /= Null
  /\ notifs'[Len(notifs')].handlers /= <<>>

(* C13: a notification with an error payload that reaches the handler of    *)
(* the instance calls the callback of that handler once, with the error     *)
(* and no result, calls no listener, sends and queues no count query, and   *)
(* leaves filters, roomId, subscriptionId, subscriptionTimestamp,           *)
(* subscribing, the queue, the socket and the requests in flight as they    *)
(* were.                                                                    *)
C13_ErrorNotification ==
  [][ErrorNotificationStep
       => LET n == Len(notifs')
          IN  /\ Len(notifs'[n].handlers) = 1
              /\ log' = Append(log, CbCall(notifs'[n].handlers[1],
                                           notifs'[n].data.error, Undefined, n))
              /\ UNCHANGED <<filters, roomId, subscriptionId,
                             subscriptionTimestamp, subscribing, queue, socket,
                             subReqs, countReqs, offReqs>>]_vars

\* an Active instance has just received a notification with an error payload
C13_Witness ==
  /\ pc = "idle"
  /\ ev.op = "notify"
  /\ ev.data.error /= Null
  /\ notifs[Len(notifs)].handlers /= <<>>
  /\ Identified
  /\ socket[roomId] /= <<>>
  /\ LogOf(Len(notifs)) /= <<>>

\* this step is a call of count(cb) made while subscribing is false
CountCallStep ==
  /\ Len(hist') > Len(hist)
  /\ ev'.op = "count"
  /\ ~subscribing

\* this step is the response to a count query of a caller
UserCountResponseStep ==
  /\ Len(countReqs') < Len(countReqs)
  /\ ev'.op = "countResponse"
  /\ ev'.cb.kind = "user"

\* the instance and its socket binding are left as they were
InstanceUnchanged ==
  UNCHANGED <<filters, roomId, subscriptionId, subscriptionTimestamp,
              subscribing, queue, socket, subReqs, offReqs>>

(* C14: count(cb) called while subscribing is false sends one count query   *)
(* with the current roomId and calls nothing; the response to that query    *)
(* calls cb once, with the error alone or with the result and no error;     *)
(* neither the call nor the response changes filters, roomId,               *)
(* subscriptionId, subscriptionTimestamp, subscribing, the queue or the     *)
(* socket.                                                                  *)
C14_CountFrame ==
  [][/\ CountCallStep
          => (/\ countReqs' = Append(countReqs, [roomId |-> roomId,
                                                  cb |-> UserCb(ev'.cb)])
              /\ log' = log
              /\ InstanceUnchanged)
     /\ UserCountResponseStep
          => (/\ log' = Append(log, IF ev'.err /= Null
                                      THEN CbCall(ev'.cb.cb, ev'.err, Undefined, Null)
                                      ELSE CbCall(ev'.cb.cb, Null, ev'.res, Null))
              /\ InstanceUnchanged)]_vars

\* the count query of a caller, sent by an Active instance under its room
\* id, has just been answered
C14_Witness ==
  /\ pc = "idle"
  /\ ev.op = "countResponse"
  /\ ev.cb.kind = "user"
  /\ Identified
  /\ socket[roomId] /= <<>>
  /\ hist[Len(hist)].op = "count"
  /\ log /= <<>>

(* C15: whenever no call and no response callback is running, roomId is     *)
(* non-null if and only if a handler of the instance is registered on the   *)
(* socket, and every registered handler is registered under roomId.         *)
C15_RoomIdIffHandler ==
  pc = "idle"
    => (/\ (roomId /= Null) <=> (NumHandlers > 0)
        /\ \A k \in Channels : socket[k] /= <<>> => k = roomId)

(* C16, as stated: at most one subscribe or unsubscribe request of the      *)
(* instance is unanswered at any time.                                      *)
C16_OneRequestInFlight == Len(subReqs) + Len(offReqs) <= 1

(* C16, amended: at most one subscribe request of the instance is           *)
(* unanswered at any time, and subscribing is true while it is; unsubscribe *)
(* requests are sent without waiting for an answer and may be unanswered    *)
(* when a subscribe request is sent.                                        *)
C16_OneSubscribeInFlight ==
  /\ Len(subReqs) <= 1
  /\ subReqs /= <<>> => subscribing

\* a renew on an Active instance has sent 'off' and then 'on'
C16_Witness ==
  /\ pc = "idle"
  /\ ev.op = "renew"
  /\ subscribing
  /\ Len(subReqs) = 1
  /\ Len(offReqs) >= 1

(* C17: when the callback of a successful subscribe response has returned   *)
(* with subscribing false, the queue is empty; and whenever no call and no  *)
(* response callback is running, a non-empty queue implies that             *)
(* subscribing is true.                                                     *)
C17_QueueImpliesSubscribing ==
  /\ (SubscribeOkDone /\ ~subscribing) => queue = <<>>
  /\ (pc = "idle" /\ queue /= <<>>) => subscribing

\* the response callback has called dequeue() and no queued entry has been
\* shifted yet
DrainStarts ==
  /\ pc = "dequeue"
  /\ queue /= <<>>
  /\ queue = drained
  /\ replayed = <<>>

(* C18: in the callback of a successful subscribe response, when the first  *)
(* queued call is about to be replayed, the notification handler of that    *)
(* response is registered on the socket under the new roomId.               *)
C18_HandlerBeforeReplay ==
  DrainStarts => (roomId /= Null /\ socket[roomId] = <<handlerCb>>)

(* C19: the drain started by a successful subscribe response terminates.    *)
(* An iteration of the loop of dequeue() is deterministic, so an iteration  *)
(* that leaves every variable as it was is followed by the same iteration   *)
(* for ever: while the response callback is running, its next step, an      *)
(* iteration of the loop or the registration that follows the loop, must    *)
(* change the state.                                                        *)
C19_DrainTerminates ==
  pc = "dequeue" => ENABLED <<DequeueStep \/ RegisterHandler>>_vars

\* since notification n arrived, unsubscribe has cleared the Active
\* subscription that received it
UnsubscribedSince(n) ==
  \E j \in (notifs[n].at + 1)..Len(hist) :
    /\ hist[j].op = "unsubscribe"
    /\ hist[j].roomId = notifs[n].key
    /\ ~hist[j].subscribing

(* C20: when the count query of a lifecycle notification is answered after  *)
(* unsubscribe has cleared the subscription that received the notification, *)
(* neither the callback of that subscription nor a global listener is       *)
(* called for the notification.                                             *)
C20_NoCallAfterUnsubscribe ==
  \A n \in DOMAIN notifs :
    (Lifecycle(n) /\ CountAnswered(n) /\ UnsubscribedSince(n))
      => LogOf(n) = <<>>

====
